---- MODULE Spec2Model ----
(***************************************************************************)
(* A model of the Pijul input scheme of libfetchers                        *)
(* (src/libfetchers/pijul.cc): the Descriptor ("Input") built by the       *)
(* scheme, the resolver fetch/doFetch with its two cache-key families,     *)
(* the validation of the probed repository status, and the attribute       *)
(* merge.  The fetcher cache, the content store and the pijul executable   *)
(* are collaborators outside that file; they are modelled from their       *)
(* interface.                                                              *)
(***************************************************************************)
EXTENDS Integers, Sequences, FiniteSets, TLC

VARIABLES
    cache,      \* fetcher cache: key (an Attrs) -> [info, storePath, final]
    store,      \* the store paths addToStore has produced
    remote,     \* remote[url][channel]: number of states the channel has (0: no such channel)
    last,       \* record of the most recent call of fetch
    mDest,      \* mergeAttrs: dest
    mSource,    \* mergeAttrs: what is left of source
    mStatus,    \* mergeAttrs: "idle", "running", "done" or "error"
    mKey,       \* mergeAttrs: the key named by the error
    mDest0,     \* mergeAttrs: dest at the call
    mSource0,   \* mergeAttrs: source at the call
    output,     \* getRepoChannel: what "pijul channel" printed, a sequence of characters
    pos,        \* getRepoChannel: pos
    chStatus,   \* getRepoChannel: "idle", "running", "returned", "ProbeFailure" or "OutOfRange"
    chResult,   \* getRepoChannel: the string returned
    procs,      \* concurrent calls: process -> where its call of doFetch stands
    tmpDirs,    \* the temporary directories that exist
    parsedUrl,  \* the ParsedURL given to inputFromURL
    urlInput,   \* the Input inputFromURL made of it
    urlOut,     \* the ParsedURL toURL made of that Input
    urlStatus   \* "idle", "start", "rejected", "input" or "done"

vars == <<cache, store, remote, last, mDest, mSource, mStatus, mKey, mDest0, mSource0,
          output, pos, chStatus, chResult, procs, tmpDirs,
          parsedUrl, urlInput, urlOut, urlStatus>>

resolverVars == <<cache, store, remote, last>>
mergeVars == <<mDest, mSource, mStatus, mKey, mDest0, mSource0>>
channelVars == <<output, pos, chStatus, chResult>>
stepVars == <<procs, tmpDirs>>
urlVars == <<parsedUrl, urlInput, urlOut, urlStatus>>
otherVars == <<channelVars, stepVars, urlVars>>

----------------------------------------------------------------------------
(* Bounds and universes *)

\* the number of changes the repositories record in a run
MaxAdvances == 1

StateNames == <<"s1", "s2", "s3", "s4">>

\* the states a channel can have gone through: the first and one per change
States == {StateNames[i] : i \in 1..(MaxAdvances + 1)}

StateIndex(s) == CHOOSE i \in 1..Len(StateNames) : StateNames[i] = s

Urls == {"u1", "u2"}

Channels == {"main", "dev"}

DefaultChannel == "main"

\* the timestamp the log reports for a state
Timestamp(s) == 100 * StateIndex(s)

\* an absent std::optional is <<>>, a present one <<v>>
None == <<>>

Some(v) == <<v>>

IsSome(o) == o # <<>>

----------------------------------------------------------------------------
(* Attrs: std::map<std::string, Attr>, a function from names to values *)

\* the order in which std::map iterates the attribute names
AttrOrder == <<"channel", "lastModified", "name", "narHash", "state", "type", "url">>

EmptyAttrs == [k \in {} |-> 0]

maybeGetStrAttr(attrs, k) == IF k \in DOMAIN attrs THEN Some(attrs[k]) ELSE None

\* source.begin(): the entry with the least key
Begin(source) ==
    AttrOrder[CHOOSE i \in 1..Len(AttrOrder) :
        /\ AttrOrder[i] \in DOMAIN source
        /\ \A j \in 1..(i - 1) : AttrOrder[j] \notin DOMAIN source]

\* source.extract(next): source without that entry
Extract(source, k) == [j \in DOMAIN source \ {k} |-> source[j]]

\* mergeOne as insert_or_assign: a differing value replaces the old one
mergeOneAssign(dest, key, attr) ==
    [ok |-> TRUE,
     attrs |-> [j \in DOMAIN dest \cup {key} |-> IF j = key THEN attr ELSE dest[j]],
     key |-> ""]

mergeOne(dest, key, attr) ==
    IF key \in DOMAIN dest
    THEN IF dest[key] # attr
         THEN [ok |-> FALSE, attrs |-> dest, key |-> key]
         ELSE [ok |-> TRUE, attrs |-> dest, key |-> ""]
    ELSE [ok |-> TRUE,
          attrs |-> [j \in DOMAIN dest \cup {key} |-> IF j = key THEN attr ELSE dest[j]],
          key |-> ""]

\* one iteration of the loop of mergeAttrs
MergeIter(dest, source) ==
    IF DOMAIN source = {}
    THEN [status |-> "done", dest |-> dest, source |-> source, key |-> ""]
    ELSE LET next == Begin(source)
             r == mergeOne(dest, next, source[next])
         IN  [status |-> IF r.ok THEN "running" ELSE "error",
              dest |-> r.attrs,
              source |-> Extract(source, next),
              key |-> r.key]

RECURSIVE mergeLoop(_, _)
mergeLoop(dest, source) ==
    LET it == MergeIter(dest, source)
    IN  IF it.status = "running" THEN mergeLoop(it.dest, it.source) ELSE it

\* mergeAttrs(dest, source): ok and the new dest, or the key of the mismatch
mergeAttrs(dest, source) ==
    LET r == mergeLoop(dest, source)
    IN  [ok |-> r.status = "done", attrs |-> r.dest, key |-> r.key]

----------------------------------------------------------------------------
(* The Descriptor and the scheme adapter *)

\* the attribute names inputFromAttrs accepts
AllowedAttrs == {"type", "url", "channel", "state", "narHash", "lastModified"}

LockedByAttrs(attrs) ==
    IsSome(maybeGetStrAttr(attrs, "channel")) /\ IsSome(maybeGetStrAttr(attrs, "state"))

\* inputFromAttrs: nothing for another type, an error for an attribute
\* outside the allow-list, otherwise the Input
inputFromAttrs(attrs) ==
    IF maybeGetStrAttr(attrs, "type") # Some("pijul")
    THEN [kind |-> "none"]
    ELSE IF \E k \in DOMAIN attrs : k \notin AllowedAttrs
    THEN [kind |-> "error"]
    ELSE IF "url" \notin DOMAIN attrs
    THEN [kind |-> "error"]
    ELSE [kind |-> "input", attrs |-> attrs, locked |-> LockedByAttrs(attrs)]

\* Input::getName(): the scheme accepts no "name" attribute
getName(input) == "source"

----------------------------------------------------------------------------
(* The collaborators: the fetcher cache, the store, the pijul executable *)

\* Cache::lookup(store, key): the entry under key, if any
CacheHas(c, key) == key \in DOMAIN c

\* Cache::add(store, key, infoAttrs, storePath, final): the last writer wins
CacheAdd(c, key, infoAttrs, storePath, final) ==
    [k \in DOMAIN c \cup {key} |->
        IF k = key
        THEN [info |-> infoAttrs, storePath |-> storePath, final |-> final]
        ELSE c[k]]

\* the tree a repository serves for a state
Tree(url, state) == <<url, state>>

\* Store::addToStore(name, path): content addressed
addToStore(name, tree) == [name |-> name, tree |-> tree]

NoPath == [name |-> "", tree |-> <<>>]

NoStatus == [channel |-> "", state |-> "", lastModified |-> 0]

\* the repository has channel ch with state s in its history
Reports(rem, url, ch, s) == StateIndex(s) <= rem[url][ch]

\* what "pijul clone [--channel C] [--state S] url dir" followed by the
\* status commands can come to: the clone fails, a status command fails, or
\* the clone holds the requested channel and state where the repository has
\* them, and the default channel or the channel's latest state where not
CloneOutcomes(rem, url, channel, state) ==
    LET want == IF IsSome(channel) THEN channel[1] ELSE DefaultChannel
        ch == IF rem[url][want] >= 1 THEN want ELSE DefaultChannel
        head == rem[url][ch]
        st == IF IsSome(state) /\ StateIndex(state[1]) <= head
              THEN state[1] ELSE StateNames[head]
    IN  {[kind |-> "CloneFailure", rs |-> NoStatus, tree |-> <<>>],
         [kind |-> "ProbeFailure", rs |-> NoStatus, tree |-> <<>>],
         [kind |-> "cloned",
          rs |-> [channel |-> ch, state |-> st, lastModified |-> Timestamp(st)],
          tree |-> Tree(url, st)]}

----------------------------------------------------------------------------
(* The resolver *)

ImpureKey(name, repoUrl) == [type |-> "pijul", name |-> name, url |-> repoUrl]

LockedKey(name, channel, state) ==
    [type |-> "pijul", name |-> name, channel |-> channel, state |-> state]

\* the test with an absent request value matching nothing
CompatiblePinnedOnly(channel, state, infoAttrs) ==
    /\ (IsSome(channel) /\ channel[1] = infoAttrs.channel)
    /\ (IsSome(state) /\ state[1] = infoAttrs.state)

\* the test with the state left out
CompatibleChannelOnly(channel, state, infoAttrs) ==
    ~IsSome(channel) \/ channel[1] = infoAttrs.channel

\* the test an entry found under the impure key has to pass to be returned
Compatible(channel, state, infoAttrs) ==
    /\ (~IsSome(channel) \/ channel[1] = infoAttrs.channel)
    /\ (~IsSome(state) \/ state[1] = infoAttrs.state)

ChannelMatches(channel, rs) == ~(IsSome(channel) /\ channel[1] # rs.channel)

StateMatches(state, rs) == ~(IsSome(state) /\ state[1] # rs.state)

\* doFetchClone with the tree added to the store before the status is validated
doFetchCloneAddFirst(st, inputName, repoUrl, channel, state, o) ==
    IF o.kind = "CloneFailure"
    THEN [outcome |-> "CloneFailure", storePath |-> NoPath, rs |-> NoStatus,
          store |-> st, steps |-> <<"Clone">>]
    ELSE IF o.kind = "ProbeFailure"
    THEN [outcome |-> "ProbeFailure", storePath |-> NoPath, rs |-> NoStatus,
          store |-> st, steps |-> <<"Clone", "Validate">>]
    ELSE LET storePath == addToStore(inputName, o.tree)
             added == st \cup {storePath}
         IN  IF ~ChannelMatches(channel, o.rs)
             THEN [outcome |-> "ChannelMismatch", storePath |-> NoPath, rs |-> o.rs,
                   store |-> added, steps |-> <<"Clone", "Validate">>]
             ELSE IF ~StateMatches(state, o.rs)
             THEN [outcome |-> "StateMismatch", storePath |-> NoPath, rs |-> o.rs,
                   store |-> added, steps |-> <<"Clone", "Validate">>]
             ELSE [outcome |-> "ok", storePath |-> storePath, rs |-> o.rs,
                   store |-> added, steps |-> <<"Clone", "Validate">>]

\* doFetch(store, inputName, repoUrl, channel, state): clone, read the
\* status, validate it and add the tree to the store; o is what the
\* executable came to
doFetchClone(st, inputName, repoUrl, channel, state, o) ==
    IF o.kind = "CloneFailure"
    THEN [outcome |-> "CloneFailure", storePath |-> NoPath, rs |-> NoStatus,
          store |-> st, steps |-> <<"Clone">>]
    ELSE IF o.kind = "ProbeFailure"
    THEN [outcome |-> "ProbeFailure", storePath |-> NoPath, rs |-> NoStatus,
          store |-> st, steps |-> <<"Clone", "Validate">>]
    ELSE IF ~ChannelMatches(channel, o.rs)
    THEN [outcome |-> "ChannelMismatch", storePath |-> NoPath, rs |-> o.rs,
          store |-> st, steps |-> <<"Clone", "Validate">>]
    ELSE IF ~StateMatches(state, o.rs)
    THEN [outcome |-> "StateMismatch", storePath |-> NoPath, rs |-> o.rs,
          store |-> st, steps |-> <<"Clone", "Validate">>]
    ELSE LET storePath == addToStore(inputName, o.tree)
         IN  [outcome |-> "ok", storePath |-> storePath, rs |-> o.rs,
              store |-> st \cup {storePath}, steps |-> <<"Clone", "Validate">>]

\* the key of the final entry built anew for the default channel instead
\* of from the key that was looked up
PersistKeyDefaultChannel(isLocked, name, channel, state, rs) ==
    mergeAttrs([type |-> "pijul", name |-> name],
               [channel |-> DefaultChannel, state |-> rs.state])

\* the key of the final entry without the merge of the probed channel and
\* state
PersistKeyUnmerged(isLocked, name, channel, state, rs) ==
    [ok |-> TRUE,
     attrs |-> IF isLocked THEN LockedKey(name, channel[1], state[1])
               ELSE [type |-> "pijul", name |-> name]]

\* the key of the final entry with the probed channel left out of it
PersistKeyStateOnly(isLocked, name, channel, state, rs) ==
    mergeAttrs(IF isLocked THEN LockedKey(name, channel[1], state[1])
               ELSE [type |-> "pijul", name |-> name],
               [state |-> rs.state])

\* the key of the final entry: the locked key of the request, or
\* {type, name} of an unlocked one, merged with the probed channel and state
PersistKey(isLocked, name, channel, state, rs) ==
    mergeAttrs(IF isLocked THEN LockedKey(name, channel[1], state[1])
               ELSE [type |-> "pijul", name |-> name],
               [channel |-> rs.channel, state |-> rs.state])

\* the adds with the impure key written for a locked request too
PersistAddsAlways(isLocked, impureKey, key) ==
    <<[key |-> impureKey, final |-> FALSE], [key |-> key, final |-> TRUE]>>

\* the adds with the final entry of a locked request left out
PersistAddsNoFinal(isLocked, impureKey, key) ==
    IF ~isLocked
    THEN <<[key |-> impureKey, final |-> FALSE], [key |-> key, final |-> TRUE]>>
    ELSE <<>>

\* the adds with the entry under the locked key marked not final
PersistAddsProvisional(isLocked, impureKey, key) ==
    (IF ~isLocked THEN <<[key |-> impureKey, final |-> FALSE]>> ELSE <<>>)
    \o <<[key |-> key, final |-> FALSE]>>

\* the calls of Cache::add after a clone, in order
PersistAdds(isLocked, impureKey, key) ==
    (IF ~isLocked THEN <<[key |-> impureKey, final |-> FALSE]>> ELSE <<>>)
    \o <<[key |-> key, final |-> TRUE]>>

RECURSIVE ApplyAdds(_, _, _, _)
ApplyAdds(c, adds, infoAttrs, storePath) ==
    IF adds = <<>> THEN c
    ELSE ApplyAdds(CacheAdd(c, Head(adds).key, infoAttrs, storePath, Head(adds).final),
                   Tail(adds), infoAttrs, storePath)

\* the calls of the cache one of which may throw: Cache::lookup of the
\* locked key, of the impure key, the first and the second Cache::add
NoFault == "none"

CacheFaults == {"lockedLookup", "impureLookup", "add1", "add2"}

\* the adds made before the one that throws, all of them if none does
AddsDone(adds, fault) ==
    IF fault = "add1" THEN <<>>
    ELSE IF fault = "add2" /\ Len(adds) = 2 THEN <<adds[1]>>
    ELSE adds

\* doFetch(store, input) on cache c, store st; o is what the executable
\* comes to if the call reaches the clone; fault is the call of the cache
\* that throws if doFetch comes to make it. No call of the cache is inside
\* a try block, so what the cache throws leaves doFetch
doFetchOn(c, st, input, o, fault) ==
    LET name == getName(input)
        repoUrl == input.attrs.url
        channel == maybeGetStrAttr(input.attrs, "channel")
        state == maybeGetStrAttr(input.attrs, "state")
        impureKey == ImpureKey(name, repoUrl)
        isLocked == IsSome(channel) /\ IsSome(state)
        key == IF isLocked THEN LockedKey(name, channel[1], state[1]) ELSE EmptyAttrs
        first == IF isLocked THEN <<"LockedLookup">> ELSE <<>>
        looked == IF isLocked THEN <<key>> ELSE <<>>
        none == [outcome |-> "ok", storePath |-> NoPath, infoAttrs |-> EmptyAttrs,
                 cache |-> c, store |-> st, clones |-> 0,
                 steps |-> <<>>, lookups |-> <<>>, adds |-> <<>>,
                 hit |-> "none", rs |-> NoStatus, fault |-> NoFault]
    IN  IF isLocked /\ fault = "lockedLookup"
        THEN [none EXCEPT !.outcome = "CacheError", !.fault = fault,
                          !.steps = first, !.lookups = looked]
        ELSE IF isLocked /\ CacheHas(c, key)
        THEN [none EXCEPT !.storePath = c[key].storePath, !.infoAttrs = c[key].info,
                          !.steps = first \o <<"Done">>, !.lookups = looked,
                          !.hit = "locked"]
        ELSE IF fault = "impureLookup"
        THEN [none EXCEPT !.outcome = "CacheError", !.fault = fault,
                          !.steps = first \o <<"ImpureLookup">>,
                          !.lookups = looked \o <<impureKey>>]
        ELSE IF CacheHas(c, impureKey) /\ Compatible(channel, state, c[impureKey].info)
        THEN [none EXCEPT !.storePath = c[impureKey].storePath,
                          !.infoAttrs = c[impureKey].info,
                          !.steps = first \o <<"ImpureLookup", "Done">>,
                          !.lookups = looked \o <<impureKey>>,
                          !.hit = "impure"]
        ELSE LET r == doFetchClone(st, name, repoUrl, channel, state, o)
                 k == PersistKey(isLocked, name, channel, state, r.rs)
                 infoAttrs == [channel |-> r.rs.channel, state |-> r.rs.state,
                               lastModified |-> r.rs.lastModified]
                 adds == PersistAdds(isLocked, impureKey, k.attrs)
                 sofar == [none EXCEPT !.clones = 1, !.rs = r.rs,
                                       !.steps = first \o <<"ImpureLookup">> \o r.steps,
                                       !.lookups = looked \o <<impureKey>>]
             IN  IF r.outcome # "ok"
                 THEN [sofar EXCEPT !.outcome = r.outcome, !.store = r.store]
                 ELSE IF ~k.ok
                 THEN [sofar EXCEPT !.outcome = "AttributeConflict", !.store = r.store]
                 ELSE IF AddsDone(adds, fault) # adds
                 THEN [sofar EXCEPT !.outcome = "CacheError", !.fault = fault,
                                    !.store = r.store,
                                    !.cache = ApplyAdds(c, AddsDone(adds, fault),
                                                        infoAttrs, r.storePath),
                                    !.adds = SubSeq(adds, 1, Len(AddsDone(adds, fault)) + 1),
                                    !.steps = @ \o <<"Persist">>]
                 ELSE [sofar EXCEPT !.storePath = r.storePath, !.infoAttrs = infoAttrs,
                                    !.store = r.store,
                                    !.cache = ApplyAdds(c, adds, infoAttrs, r.storePath),
                                    !.adds = adds,
                                    !.steps = @ \o <<"Persist", "Done">>]

doFetch(c, st, input, o) == doFetchOn(c, st, input, o, NoFault)

NoInput == [attrs |-> EmptyAttrs, locked |-> FALSE]

\* fetch(store, _input): doFetch, then the returned Input is a copy of
\* _input with the info attributes merged in
fetchOn(c, st, input, o, fault) ==
    LET r == doFetchOn(c, st, input, o, fault)
        m == mergeAttrs(input.attrs, r.infoAttrs)
    IN  IF r.outcome # "ok"
        THEN [r EXCEPT !.steps = @ \o <<"Fail">>] @@ [input |-> input, result |-> NoInput]
        ELSE IF ~m.ok
        THEN [r EXCEPT !.outcome = "AttributeConflict", !.storePath = NoPath,
                       !.steps = SubSeq(@, 1, Len(@) - 1) \o <<"Fail">>]
             @@ [input |-> input, result |-> NoInput]
        ELSE r @@ [input |-> input,
                   result |-> [attrs |-> m.attrs, locked |-> input.locked]]

fetch(c, st, input, o) == fetchOn(c, st, input, o, NoFault)

----------------------------------------------------------------------------
(* The calls *)

OptionalAttr(k, values) ==
    {EmptyAttrs} \cup {[j \in {k} |-> v] : v \in values}

\* the attribute sets the calls are made with: a url, with or without a
\* channel and a state, and those with both (as a lock file records them)
\* with or without the lastModified of an earlier resolution
RequestAttrs ==
    LET plain == {[type |-> "pijul", url |-> u] @@ ch @@ s :
                    u \in Urls,
                    ch \in OptionalAttr("channel", Channels),
                    s \in OptionalAttr("state", States)}
    IN  plain \cup {a @@ [lastModified |-> Timestamp(StateNames[1])] :
                        a \in {b \in plain : LockedByAttrs(b)}}

NoCall ==
    [outcome |-> "none", storePath |-> NoPath, infoAttrs |-> EmptyAttrs,
     clones |-> 0, steps |-> <<>>, lookups |-> <<>>, adds |-> <<>>,
     hit |-> "none", rs |-> NoStatus, fault |-> NoFault,
     input |-> NoInput, result |-> NoInput]

InitRemote ==
    [u \in Urls |-> [ch \in Channels |->
        IF ch = DefaultChannel \/ u = "u2" THEN 1 ELSE 0]]

\* the changes recorded since the start
Advances(rem) ==
    LET n(u) == (rem[u]["main"] - InitRemote[u]["main"]) + (rem[u]["dev"] - InitRemote[u]["dev"])
    IN  n("u1") + n("u2")

InitResolver ==
    /\ cache = [k \in {} |-> 0]
    /\ store = {}
    /\ remote = InitRemote
    /\ last = NoCall

IdleMerge ==
    /\ mDest = EmptyAttrs
    /\ mSource = EmptyAttrs
    /\ mStatus = "idle"
    /\ mKey = ""
    /\ mDest0 = EmptyAttrs
    /\ mSource0 = EmptyAttrs

IdleChannel ==
    /\ output = <<>>
    /\ pos = 0
    /\ chStatus = "idle"
    /\ chResult = <<>>

Procs == {"p1", "p2"}

NoClone == [kind |-> "none"]

IdleProc ==
    [pc |-> "idle", attrs |-> EmptyAttrs, clone |-> NoClone, adds |-> <<>>,
     outcome |-> "none"]

IdleSteps ==
    /\ procs = [p \in Procs |-> IdleProc]
    /\ tmpDirs = {}

NoUrl == [scheme |-> <<>>, rest |-> "", query |-> EmptyAttrs]

IdleUrl ==
    /\ parsedUrl = NoUrl
    /\ urlInput = NoInput
    /\ urlOut = NoUrl
    /\ urlStatus = "idle"

IdleOther == IdleChannel /\ IdleSteps /\ IdleUrl

Init == InitResolver /\ IdleMerge /\ IdleOther

\* a caller builds an Input from attributes and resolves it
Fetch ==
    \E attrs \in RequestAttrs :
        \E input \in {inputFromAttrs(attrs)} :
            /\ input.kind = "input"
            /\ \E r \in {fetch(cache, store, [attrs |-> input.attrs, locked |-> input.locked], o) :
                          o \in CloneOutcomes(remote, attrs.url,
                                              maybeGetStrAttr(attrs, "channel"),
                                              maybeGetStrAttr(attrs, "state"))} :
                 /\ cache' = r.cache
                 /\ store' = r.store
                 /\ last' = [f \in DOMAIN NoCall |-> r[f]]
            /\ UNCHANGED <<remote, mergeVars, otherVars>>

\* a repository records a change on a channel it has; in a run it is the
\* repository at "u1" that moves, the one at "u2" stays as it is
RemoteAdvance ==
    \E u \in {"u1"}, ch \in Channels :
        /\ remote[u][ch] >= 1
        /\ Advances(remote) < MaxAdvances
        /\ remote' = [remote EXCEPT ![u][ch] = @ + 1]
        /\ UNCHANGED <<cache, store, last, mergeVars, otherVars>>

Next == Fetch \/ RemoteAdvance

\* a call of fetch during which one call of the cache throws
FetchFaulty ==
    \E attrs \in RequestAttrs, fault \in CacheFaults :
        \E input \in {inputFromAttrs(attrs)} :
            /\ input.kind = "input"
            /\ \E r \in {fetchOn(cache, store, [attrs |-> input.attrs, locked |-> input.locked],
                                  o, fault) :
                          o \in CloneOutcomes(remote, attrs.url,
                                              maybeGetStrAttr(attrs, "channel"),
                                              maybeGetStrAttr(attrs, "state"))} :
                 /\ r.fault # NoFault
                 /\ cache' = r.cache
                 /\ store' = r.store
                 /\ last' = [f \in DOMAIN NoCall |-> r[f]]
            /\ UNCHANGED <<remote, mergeVars, otherVars>>

NextFault == Fetch \/ FetchFaulty

\* the calls on repositories that stay as they are, the cache throwing in
\* some of them
SpecFault == Init /\ [][NextFault]_vars

Spec == Init /\ [][Next]_vars

----------------------------------------------------------------------------
(* mergeAttrs on its own: the loop run one iteration at a time *)

MergeValues(k) ==
    IF k = "channel" THEN Channels
    ELSE IF k = "state" THEN States
    ELSE {Timestamp(st) : st \in States}

\* the mappings mergeAttrs is called with: the info attributes, some absent
MergeMaps ==
    {ch @@ st @@ lm :
        ch \in OptionalAttr("channel", MergeValues("channel")),
        st \in OptionalAttr("state", MergeValues("state")),
        lm \in OptionalAttr("lastModified", MergeValues("lastModified"))}

InitMerge ==
    /\ InitResolver
    /\ IdleOther
    /\ mDest \in MergeMaps
    /\ mSource \in MergeMaps
    /\ mStatus = "running"
    /\ mKey = ""
    /\ mDest0 = mDest
    /\ mSource0 = mSource

\* one pass through the body of while (true)
MergeStep ==
    /\ mStatus = "running"
    /\ \E it \in {MergeIter(mDest, mSource)} :
         /\ mDest' = it.dest
         /\ mSource' = it.source
         /\ mStatus' = it.status
         /\ mKey' = it.key
    /\ UNCHANGED <<mDest0, mSource0, resolverVars, otherVars>>

NextMerge == MergeStep

SpecMerge == InitMerge /\ [][NextMerge]_vars /\ WF_vars(MergeStep)

----------------------------------------------------------------------------
(* getRepoChannel: the scan of the listing "pijul channel" prints.  A      *)
(* string is a sequence of characters; positions count from 0 as in the    *)
(* code.                                                                   *)

MaxListing == 5

\* std::string::npos
NPos == -1

Chars == {"*", " ", "m", "\n"}

RECURSIVE SeqsUpTo(_, _)
SeqsUpTo(S, n) ==
    IF n = 0 THEN {<<>>}
    ELSE LET shorter == SeqsUpTo(S, n - 1)
         IN  shorter \cup {Append(q, c) : q \in shorter, c \in S}

Listings == SeqsUpTo(Chars, MaxListing)

\* output.find(c, from): the first position at or after from that holds c
Find(str, c, from) ==
    LET at == {i \in from..(Len(str) - 1) : str[i + 1] = c}
    IN  IF at = {} THEN NPos
        ELSE CHOOSE i \in at : \A j \in at : i <= j

\* substr(from, nl - from): the characters from from up to nl; with nl =
\* npos the count wraps to more than the string has left and substr stops
\* at the end of the string
SubstrTo(str, from, nl) ==
    SubSeq(str, from + 1, IF nl = NPos THEN Len(str) ELSE nl)

\* line.substr(2): throws std::out_of_range when the line has fewer than
\* two characters
SubstrFrom2(line) ==
    IF Len(line) < 2 THEN [ok |-> FALSE, str |-> <<>>]
    ELSE [ok |-> TRUE, str |-> SubSeq(line, 3, Len(line))]

\* one pass through the body of do ... while (pos != npos)
ChannelPass(str, p) ==
    LET nl == Find(str, "\n", p)
        line == SubstrTo(str, p, nl)
    IN  IF line = <<>>
        THEN \* continue: on to the condition, pos as it was
             [status |-> "running", pos |-> p, result |-> <<>>]
        ELSE IF line[1] = "*"
        THEN IF SubstrFrom2(line).ok
             THEN [status |-> "returned", pos |-> p, result |-> SubstrFrom2(line).str]
             ELSE [status |-> "OutOfRange", pos |-> p, result |-> <<>>]
        ELSE IF nl # NPos
        THEN [status |-> "running", pos |-> nl, result |-> <<>>]
        ELSE [status |-> "ProbeFailure", pos |-> nl, result |-> <<>>]

InitChannel ==
    /\ InitResolver
    /\ IdleMerge
    /\ IdleSteps
    /\ IdleUrl
    /\ output \in Listings
    /\ pos = 0
    /\ chStatus = "running"
    /\ chResult = <<>>

ChannelStep ==
    /\ chStatus = "running"
    /\ \E pass \in {ChannelPass(output, pos)} :
         /\ pos' = pass.pos
         /\ chStatus' = pass.status
         /\ chResult' = pass.result
    /\ UNCHANGED <<output, resolverVars, mergeVars, stepVars, urlVars>>

NextChannel == ChannelStep

SpecChannel == InitChannel /\ [][NextChannel]_vars

----------------------------------------------------------------------------
(* Calls of doFetch by several processes on one cache and one store, each  *)
(* call of the cache, of the executable and of the store a step of its     *)
(* own.  Nothing in the file takes a lock.                                 *)

\* the requests of the concurrent calls, all to the repository that moves:
\* the url alone, a channel it does not have, its second state, and a
\* locked request for its first state
StepRequests ==
    {[type |-> "pijul", url |-> "u1"],
     [type |-> "pijul", url |-> "u1", channel |-> "dev"],
     [type |-> "pijul", url |-> "u1", state |-> StateNames[2]],
     [type |-> "pijul", url |-> "u1", channel |-> DefaultChannel, state |-> StateNames[1]]}

\* the temporary directory is removed only when doFetch returns
delTmpDirOnReturn(dirs, dir, outcome) ==
    IF outcome = "ok" THEN dirs \ {dir} ELSE dirs

\* const AutoDelete delTmpDir(tmpDir, true): the directory is removed when
\* the scope is left, by return or by an exception
delTmpDir(dirs, dir, outcome) == dirs \ {dir}

ProcInput(p) == [attrs |-> procs[p].attrs, locked |-> LockedByAttrs(procs[p].attrs)]

ProcChannel(p) == maybeGetStrAttr(procs[p].attrs, "channel")

ProcState(p) == maybeGetStrAttr(procs[p].attrs, "state")

ProcImpureKey(p) == ImpureKey(getName(ProcInput(p)), procs[p].attrs.url)

ProcLockedKey(p) ==
    LockedKey(getName(ProcInput(p)), procs[p].attrs.channel, procs[p].attrs.state)

\* the call of process p returns or throws
Ended(p, outcome) == [IdleProc EXCEPT !.outcome = outcome]

\* a process calls doFetch(store, input)
CallStart(p) ==
    /\ procs[p].pc = "idle"
    /\ \E attrs \in StepRequests :
         procs' = [procs EXCEPT ![p] =
                     [IdleProc EXCEPT !.attrs = attrs,
                                      !.pc = IF LockedByAttrs(attrs) THEN "lockedLookup"
                                             ELSE "impureLookup"]]
    /\ UNCHANGED <<resolverVars, mergeVars, channelVars, urlVars, tmpDirs>>

\* getCache()->lookup(store, *key)
LockedLookupStep(p) ==
    /\ procs[p].pc = "lockedLookup"
    /\ procs' = [procs EXCEPT ![p] =
                   IF CacheHas(cache, ProcLockedKey(p))
                   THEN Ended(p, "ok")
                   ELSE [@ EXCEPT !.pc = "impureLookup"]]
    /\ UNCHANGED <<resolverVars, mergeVars, channelVars, urlVars, tmpDirs>>

\* getCache()->lookup(store, impureKey) and the test of what it returns
ImpureLookupStep(p) ==
    /\ procs[p].pc = "impureLookup"
    /\ LET ik == ProcImpureKey(p)
       IN  procs' = [procs EXCEPT ![p] =
                       IF /\ CacheHas(cache, ik)
                          /\ Compatible(ProcChannel(p), ProcState(p), cache[ik].info)
                       THEN Ended(p, "ok")
                       ELSE [@ EXCEPT !.pc = "clone"]]
    /\ UNCHANGED <<resolverVars, mergeVars, channelVars, urlVars, tmpDirs>>

\* createTempDir, the guard delTmpDir, then pijul clone and the probe of
\* the clone
CloneStep(p) ==
    /\ procs[p].pc = "clone"
    /\ tmpDirs' = tmpDirs \cup {p}
    /\ \E o \in CloneOutcomes(remote, procs[p].attrs.url, ProcChannel(p), ProcState(p)) :
         procs' = [procs EXCEPT ![p] = [@ EXCEPT !.pc = "leave", !.clone = o]]
    /\ UNCHANGED <<resolverVars, mergeVars, channelVars, urlVars>>

\* the rest of doFetch(store, name, repoUrl, channel, state): the two
\* checks, addToStore, and the scope of delTmpDir left; then the key and
\* the adds to make
LeaveStep(p) ==
    /\ procs[p].pc = "leave"
    /\ \E r \in {doFetchClone(store, getName(ProcInput(p)), procs[p].attrs.url,
                                ProcChannel(p), ProcState(p), procs[p].clone)} :
         /\ store' = r.store
         /\ tmpDirs' = delTmpDir(tmpDirs, p, r.outcome)
         /\ \E k \in {PersistKey(ProcInput(p).locked, getName(ProcInput(p)),
                                   ProcChannel(p), ProcState(p), r.rs)} :
              procs' = [procs EXCEPT ![p] =
                          IF r.outcome # "ok" THEN Ended(p, r.outcome)
                          ELSE IF ~k.ok THEN Ended(p, "AttributeConflict")
                          ELSE [@ EXCEPT !.pc = "persist",
                                         !.adds = PersistAdds(ProcInput(p).locked,
                                                              ProcImpureKey(p),
                                                              k.attrs)]]
    /\ UNCHANGED <<cache, remote, last, mergeVars, channelVars, urlVars>>

\* the next getCache()->add; after the last one doFetch returns
AddStep(p) ==
    /\ procs[p].pc = "persist"
    /\ LET add == Head(procs[p].adds)
           rs == procs[p].clone.rs
           infoAttrs == [channel |-> rs.channel, state |-> rs.state,
                         lastModified |-> rs.lastModified]
           storePath == addToStore(getName(ProcInput(p)), procs[p].clone.tree)
       IN  /\ cache' = CacheAdd(cache, add.key, infoAttrs, storePath, add.final)
           /\ procs' = [procs EXCEPT ![p] =
                          IF Tail(procs[p].adds) = <<>> THEN Ended(p, "ok")
                          ELSE [@ EXCEPT !.adds = Tail(@)]]
    /\ UNCHANGED <<store, remote, last, mergeVars, channelVars, urlVars, tmpDirs>>

NextSteps ==
    \/ \E p \in Procs :
          \/ CallStart(p)
          \/ LockedLookupStep(p)
          \/ ImpureLookupStep(p)
          \/ CloneStep(p)
          \/ LeaveStep(p)
          \/ AddStep(p)
    \/ RemoteAdvance

SpecSteps == Init /\ [][NextSteps]_vars

----------------------------------------------------------------------------
(* inputFromURL and toURL.  A ParsedURL is its scheme (a sequence of       *)
(* characters), what follows "scheme:" up to the query, and the query, a   *)
(* map from names to values.  The url attribute of an Input is a string:   *)
(* the sequence of the pieces to_string writes and parseURL reads.         *)

Pijul == <<"p", "i", "j", "u", "l">>

Http == <<"h", "t", "t", "p">>

Https == Http \o <<"s">>

Ssh == <<"s", "s", "h">>

Schemes ==
    {Pijul \o <<"+">> \o Http, Pijul \o <<"+">> \o Https, Pijul \o <<"+">> \o Ssh,
     Https, Pijul}

\* the order in which std::map iterates the names of a query
QueryOrder == <<"channel", "ref", "state">>

QueryValues(name) ==
    IF name = "channel" THEN {"", "main"}
    ELSE IF name = "state" THEN {"", "s1"}
    ELSE {"", "x"}

Queries ==
    {c @@ r @@ st :
        c \in OptionalAttr("channel", QueryValues("channel")),
        r \in OptionalAttr("ref", QueryValues("ref")),
        st \in OptionalAttr("state", QueryValues("state"))}

ParsedURLs ==
    {[scheme |-> sc, rest |-> "//host/repo", query |-> q] : sc \in Schemes, q \in Queries}

\* the query as to_string writes it: ?name=value&name=value, in the order
\* of the map
RECURSIVE QueryString(_, _)
QueryString(query, i) ==
    IF i > Len(QueryOrder) THEN <<>>
    ELSE IF QueryOrder[i] \in DOMAIN query
    THEN <<"&", QueryOrder[i], "=", query[QueryOrder[i]]>> \o QueryString(query, i + 1)
    ELSE QueryString(query, i + 1)

\* ParsedURL::to_string()
to_string(u) ==
    LET q == QueryString(u.query, 1)
    IN  u.scheme \o <<":", u.rest>>
        \o (IF q = <<>> THEN <<>> ELSE <<"?">> \o Tail(q))

\* parseURL(str): the scheme is what stands before the first ':', the
\* query what follows '?'
parseURL(str) ==
    LET colon == CHOOSE i \in 1..Len(str) :
                    str[i] = ":" /\ \A j \in 1..(i - 1) : str[j] # ":"
        q == SubSeq(str, colon + 2, Len(str))
        pairs == {i \in 1..Len(q) : i % 4 = 1}
    IN  [scheme |-> SubSeq(str, 1, colon - 1),
         rest |-> str[colon + 1],
         query |-> [name \in {q[i + 1] : i \in pairs} |->
                      q[(CHOOSE i \in pairs : q[i + 1] = name) + 3]]]

\* the query of url2 with every parameter dropped
KeptQueryNone(query) == EmptyAttrs

\* the query of url2: the parameters other than channel and state
KeptQuery(query) ==
    [name \in DOMAIN query \ {"channel", "state"} |-> query[name]]

\* inputFromURL(url): nothing for a scheme other than the three
inputFromURL(u) ==
    IF /\ u.scheme # Pijul \o <<"+">> \o Http
       /\ u.scheme # Pijul \o <<"+">> \o Https
       /\ u.scheme # Pijul \o <<"+">> \o Ssh
    THEN [kind |-> "none"]
    ELSE LET url2 == [u EXCEPT !.scheme = SubSeq(u.scheme, 6 + 1, Len(u.scheme)),
                               !.query = KeptQuery(u.query)]
             lifted == [name \in DOMAIN u.query \cap {"channel", "state"} |-> u.query[name]]
         IN  inputFromAttrs([type |-> "pijul"] @@ lifted @@ [url |-> to_string(url2)])

\* toURL(input)
toURL(input) ==
    LET u == parseURL(input.attrs.url)
        scheme == IF u.scheme # Pijul THEN Pijul \o <<"+">> \o u.scheme ELSE u.scheme
        channel == maybeGetStrAttr(input.attrs, "channel")
        state == maybeGetStrAttr(input.attrs, "state")
        q1 == IF IsSome(channel)
              THEN [name \in DOMAIN u.query \cup {"channel"} |->
                      IF name = "channel" THEN channel[1] ELSE u.query[name]]
              ELSE u.query
        q2 == IF IsSome(state)
              THEN [name \in DOMAIN q1 \cup {"state"} |->
                      IF name = "state" THEN state[1] ELSE q1[name]]
              ELSE q1
    IN  [u EXCEPT !.scheme = scheme, !.query = q2]

InitUrl ==
    /\ InitResolver
    /\ IdleMerge
    /\ IdleChannel
    /\ IdleSteps
    /\ parsedUrl \in ParsedURLs
    /\ urlInput = NoInput
    /\ urlOut = NoUrl
    /\ urlStatus = "start"

FromURL ==
    /\ urlStatus = "start"
    /\ \E input \in {inputFromURL(parsedUrl)} :
         IF input.kind = "input"
         THEN /\ urlInput' = [attrs |-> input.attrs, locked |-> input.locked]
              /\ urlStatus' = "input"
         ELSE /\ urlInput' = urlInput
              /\ urlStatus' = "rejected"
    /\ UNCHANGED <<parsedUrl, urlOut, resolverVars, mergeVars, channelVars, stepVars>>

ToURL ==
    /\ urlStatus = "input"
    /\ urlOut' = toURL(urlInput)
    /\ urlStatus' = "done"
    /\ UNCHANGED <<parsedUrl, urlInput, resolverVars, mergeVars, channelVars, stepVars>>

NextUrl == FromURL \/ ToURL

SpecUrl == InitUrl /\ [][NextUrl]_vars

----------------------------------------------------------------------------
(* What the calls are checked for *)

Called == last.outcome # "none"

Succeeded == last.outcome = "ok"

ReqUrl(input) == input.attrs.url

ReqChannel(input) == maybeGetStrAttr(input.attrs, "channel")

ReqState(input) == maybeGetStrAttr(input.attrs, "state")

\* what the executable can come to for a call of fetch on input now
OutcomesFor(input) ==
    CloneOutcomes(remote, ReqUrl(input), ReqChannel(input), ReqState(input))

LockedInputs ==
    {[attrs |-> a, locked |-> TRUE] : a \in {b \in RequestAttrs : LockedByAttrs(b)}}

InputLockedKey(input) == LockedKey(getName(input), input.attrs.channel, input.attrs.state)

InputImpureKey(input) == ImpureKey(getName(input), ReqUrl(input))

\* C1: after a successful fetch of a locked Descriptor, a second fetch of
\* the same Descriptor that succeeds returns the same store path and the two
\* calls clone at most once together; and a fetch of a locked Descriptor
\* whose key {name, channel, state} is in the cache returns the cached
\* entry without cloning or probing.
C1_LockedIdempotent ==
    /\ (Succeeded /\ last.input.locked) =>
          \A o \in OutcomesFor(last.input) :
              LET second == fetch(cache, store, last.input, o)
              IN  second.outcome = "ok" =>
                    /\ second.storePath = last.storePath
                    /\ last.clones + second.clones <= 1
    /\ \A input \in LockedInputs :
          CacheHas(cache, InputLockedKey(input)) =>
              \A o \in OutcomesFor(input) :
                  LET r == doFetch(cache, store, input, o)
                  IN  /\ r.outcome = "ok"
                      /\ r.clones = 0
                      /\ r.storePath = cache[InputLockedKey(input)].storePath
                      /\ r.cache = cache

\* a fetch of a locked Descriptor has been served from the final entry a
\* locked fetch wrote after its clone (the cache holds final entries only)
C1_Witness ==
    /\ Succeeded
    /\ last.input.locked
    /\ last.hit = "locked"
    /\ last.clones = 0
    /\ \A k \in DOMAIN cache : cache[k].final
    /\ last.storePath.tree[1] = ReqUrl(last.input)

\* C2: a fetch of a locked Descriptor {url, channel C, state S} whose
\* repository at url does not have channel C at state S never succeeds (the
\* claim: it fails with ChannelMismatch and returns no store path).
C2_ConflictDetected ==
    (/\ Called
     /\ last.input.locked
     /\ ~Reports(remote, ReqUrl(last.input), last.input.attrs.channel, last.input.attrs.state))
    => last.outcome # "ok"

\* a call is one step that changes the record of the last call
CallStep == last' # last

FailedBeforePersist ==
    {"CloneFailure", "ProbeFailure", "ChannelMismatch", "StateMismatch"}

\* C5: a fetch that ends with a clone failure, a probe failure,
\* ChannelMismatch or StateMismatch leaves the cache and the store as they
\* were; and a fetch that adds to the cache or to the store has cloned and
\* its probed status has passed both validation checks.
C5_FailureWritesNothing ==
    [][CallStep =>
        /\ (last'.outcome \in FailedBeforePersist => cache' = cache /\ store' = store)
        /\ ((cache' # cache \/ store' # store \/ last'.adds # <<>>) =>
              /\ last'.clones = 1
              /\ last'.rs # NoStatus
              /\ ChannelMatches(ReqChannel(last'.input), last'.rs)
              /\ StateMatches(ReqState(last'.input), last'.rs))]_vars

\* a fetch has ended with ChannelMismatch or StateMismatch on a cache that
\* held entries
C5_Witness ==
    /\ last.outcome \in {"ChannelMismatch", "StateMismatch"}
    /\ last.clones = 1
    /\ DOMAIN cache # {}
    /\ store # {}

\* the request is a url alone: no channel, no state
Unpinned(input) == ~IsSome(ReqChannel(input)) /\ ~IsSome(ReqState(input))

\* the latest state of the default channel of the repository at url
LatestState(url) == StateNames[remote[url][DefaultChannel]]

\* the second of two fetches of the same unpinned Descriptor, the first of
\* which cloned, with the repository's latest state changed since
SecondUnpinnedCall ==
    /\ CallStep
    /\ Succeeded
    /\ last.clones = 1
    /\ Unpinned(last.input)
    /\ last'.input = last.input
    /\ LatestState(ReqUrl(last.input)) # last.infoAttrs.state

\* C3 as claimed: the second of two fetches of an unpinned Descriptor, the
\* repository's latest state having changed between them, returns another
\* store path than the first and leaves the new state under the impure key.
C3_ImpureFreshness ==
    [][SecondUnpinnedCall =>
        /\ last'.storePath # last.storePath
        /\ cache'[InputImpureKey(last.input)].info.state = LatestState(ReqUrl(last.input))]_vars

\* C3 as amended: that second fetch finds the entry the first wrote under
\* the impure key, returns the first fetch's store path without cloning,
\* and the impure entry still holds the old state.
C3_ImpureHitIsStale ==
    [][SecondUnpinnedCall =>
        /\ last'.outcome = "ok"
        /\ last'.hit = "impure"
        /\ last'.clones = 0
        /\ last'.storePath = last.storePath
        /\ cache' = cache
        /\ cache'[InputImpureKey(last.input)].info.state = last.infoAttrs.state
        /\ cache'[InputImpureKey(last.input)].info.state # LatestState(ReqUrl(last.input))]_vars

\* an unpinned Descriptor has been served from the impure entry while the
\* repository's latest state is another one
C3_Witness ==
    /\ Succeeded
    /\ Unpinned(last.input)
    /\ last.hit = "impure"
    /\ last.infoAttrs.state # LatestState(ReqUrl(last.input))

AddedKeys(call) == {call.adds[i].key : i \in 1..Len(call.adds)}

FinalKeys(c) == {k \in DOMAIN c : c[k].final}

Steps(call) == {call.steps[i] : i \in 1..Len(call.steps)}

ProbedInfo(call) ==
    [channel |-> call.rs.channel, state |-> call.rs.state,
     lastModified |-> call.rs.lastModified]

\* C6 as claimed: every fetch that reaches Persist, of a locked Descriptor
\* or not, adds the impure key {name, url} as not final.
C6_PersistWritesImpure ==
    "Persist" \in Steps(last) =>
        [key |-> InputImpureKey(last.input), final |-> FALSE] \in
            {last.adds[i] : i \in 1..Len(last.adds)}

\* C6 as amended: a fetch of a Descriptor that is not locked and reaches
\* Persist leaves under the impure key {name, url} the probed channel,
\* state and lastModified and the new store path, not final, whatever was
\* there; a fetch of a locked Descriptor that reaches Persist adds the
\* final entry alone and leaves the impure key as it was.
C6_UnlockedPersistWritesImpure ==
    [][(CallStep /\ "Persist" \in Steps(last')) =>
        LET ik == InputImpureKey(last'.input)
        IN  IF ~last'.input.locked
            THEN /\ ik \in DOMAIN cache'
                 /\ cache'[ik] =
                      [info |-> ProbedInfo(last'),
                       storePath |-> addToStore(getName(last'.input),
                                                Tree(ReqUrl(last'.input), last'.rs.state)),
                       final |-> FALSE]
                 /\ last'.adds[1] = [key |-> ik, final |-> FALSE]
            ELSE /\ ik \notin AddedKeys(last')
                 /\ ik \in DOMAIN cache' <=> ik \in DOMAIN cache
                 /\ ik \in DOMAIN cache => cache'[ik] = cache[ik]
                 /\ Len(last'.adds) = 1]_vars

\* a fetch that is not locked has replaced an impure entry by one with
\* another state
C6_Witness ==
    /\ Succeeded
    /\ ~last.input.locked
    /\ "Persist" \in Steps(last)
    /\ cache[InputImpureKey(last.input)].info = ProbedInfo(last)
    /\ \E k \in FinalKeys(cache) :
          /\ cache[k].storePath.tree[1] = ReqUrl(last.input)
          /\ cache[k].info.state # last.rs.state

\* the metadata has the channel and the state the request names
ReqAgrees(input, infoAttrs) ==
    /\ "channel" \in DOMAIN input.attrs => input.attrs.channel = infoAttrs.channel
    /\ "state" \in DOMAIN input.attrs => input.attrs.state = infoAttrs.state

\* C7: a fetch returns the entry under the impure key only if the entry
\* has the requested channel and the requested state, an absent one
\* matching anything; if the entry differs, the fetch does not return it
\* and goes on to clone; and the metadata of every successful fetch has the
\* channel and state the request names.
C7_ImpureHitCompatible ==
    [][CallStep =>
        LET input == last'.input
            ik == InputImpureKey(input)
            lockedHit == input.locked /\ CacheHas(cache, InputLockedKey(input))
        IN  /\ last'.hit = "impure" =>
                  /\ CacheHas(cache, ik)
                  /\ last'.infoAttrs = cache[ik].info
                  /\ ReqAgrees(input, cache[ik].info)
            /\ (~lockedHit /\ CacheHas(cache, ik) /\ ~ReqAgrees(input, cache[ik].info)) =>
                  /\ last'.hit = "none"
                  /\ last'.clones = 1
                  /\ "Clone" \in Steps(last')
            /\ (~lockedHit /\ CacheHas(cache, ik) /\ ReqAgrees(input, cache[ik].info)) =>
                  /\ last'.hit = "impure"
                  /\ last'.clones = 0
            /\ last'.outcome = "ok" => ReqAgrees(input, last'.infoAttrs)]_vars

\* a fetch has cloned past an impure entry with another state than the
\* one requested, and succeeded
C7_Witness ==
    /\ Succeeded
    /\ last.input.locked
    /\ last.clones = 1
    /\ CacheHas(cache, InputImpureKey(last.input))
    /\ ~ReqAgrees(last.input, cache[InputImpureKey(last.input)].info)

\* the values the two mappings give to the keys they share are the same
Agree(a, b) == \A k \in DOMAIN a \cap DOMAIN b : a[k] = b[k]

UnionAttrs(a, b) ==
    [k \in DOMAIN a \cup DOMAIN b |-> IF k \in DOMAIN a THEN a[k] ELSE b[k]]

InfoNames == {"channel", "state", "lastModified"}

\* C8: a successful fetch returns a Descriptor that has every attribute of
\* the input with the input's value, and channel, state and lastModified
\* with the values of the cached or probed metadata; and a fetch whose
\* metadata differs from a value the input has does not succeed.
C8_EnrichedNotContradicted ==
    /\ Succeeded =>
          /\ \A k \in DOMAIN last.input.attrs :
                /\ k \in DOMAIN last.result.attrs
                /\ last.result.attrs[k] = last.input.attrs[k]
          /\ \A k \in InfoNames :
                /\ k \in DOMAIN last.result.attrs
                /\ last.result.attrs[k] = last.infoAttrs[k]
          /\ DOMAIN last.result.attrs = DOMAIN last.input.attrs \cup InfoNames
    /\ (Called /\ DOMAIN last.infoAttrs = InfoNames /\ ~Agree(last.input.attrs, last.infoAttrs))
          => last.outcome = "AttributeConflict"

\* a fetch of an input that carries a lastModified has found metadata with
\* another lastModified
C8_Witness ==
    /\ last.outcome = "AttributeConflict"
    /\ "lastModified" \in DOMAIN last.input.attrs
    /\ last.infoAttrs.lastModified # last.input.attrs.lastModified

MergeResult ==
    /\ mStatus = "done" =>
          /\ Agree(mDest0, mSource0)
          /\ mDest = UnionAttrs(mDest0, mSource0)
    /\ mStatus = "error" =>
          /\ mKey \in DOMAIN mDest0 \cap DOMAIN mSource0
          /\ mDest0[mKey] # mSource0[mKey]

\* C9: mergeAttrs(dest, source) ends for every source; it ends without an
\* error exactly when dest and source agree on the keys they share, and
\* dest is then the union of the two; it ends with an error that names a
\* shared key with different values otherwise.
C9_MergeRule ==
    /\ []MergeResult
    /\ <>(mStatus \in {"done", "error"})

\* a merge has ended that inserted a key, left a shared key, and kept a key
\* of dest alone
C9_Witness ==
    /\ mStatus = "done"
    /\ DOMAIN mSource0 \ DOMAIN mDest0 # {}
    /\ DOMAIN mSource0 \cap DOMAIN mDest0 # {}
    /\ DOMAIN mDest0 \ DOMAIN mSource0 # {}

\* C10: the locked flag of every Descriptor of the scheme, the one built
\* by inputFromAttrs and the one fetch returns, is true exactly when the
\* Descriptor has both channel and state.
C10_LockedIffPinned ==
    Called =>
        /\ last.input.locked <=> LockedByAttrs(last.input.attrs)
        /\ Succeeded => (last.result.locked <=> LockedByAttrs(last.result.attrs))

\* the keys a call looked up or added
KeysUsed(call) == {call.lookups[i] : i \in 1..Len(call.lookups)} \cup AddedKeys(call)

ImpureKeysUsed(call) == {k \in KeysUsed(call) : "url" \in DOMAIN k}

LockedKeysUsed(call) == {k \in KeysUsed(call) : "url" \notin DOMAIN k}

\* C11 as claimed: every fetch looks up or adds exactly one locked key and
\* at most one impure key.
C11_OneLockedKey ==
    Called =>
        /\ Cardinality(LockedKeysUsed(last)) = 1
        /\ Cardinality(ImpureKeysUsed(last)) <= 1

\* C11 as amended: every fetch looks up or adds at most one locked key and
\* at most one impure key; it uses exactly one locked key when the
\* Descriptor is locked or the fetch reaches Persist, and none otherwise;
\* it uses no impure key exactly when the locked key was found.
C11_AtMostOneKeyEach ==
    Called =>
        /\ Cardinality(LockedKeysUsed(last)) <= 1
        /\ Cardinality(ImpureKeysUsed(last)) <= 1
        /\ (last.input.locked \/ "Persist" \in Steps(last))
              <=> Cardinality(LockedKeysUsed(last)) = 1
        /\ last.input.locked => LockedKeysUsed(last) = {InputLockedKey(last.input)}
        /\ ImpureKeysUsed(last) \subseteq {InputImpureKey(last.input)}
        /\ last.hit = "locked" <=> ImpureKeysUsed(last) = {}

\* a fetch of a locked Descriptor has looked up its key and the impure
\* key, cloned, and added the key it had looked up
C11_Witness ==
    /\ Succeeded
    /\ last.input.locked
    /\ last.clones = 1
    /\ Len(last.lookups) = 2
    /\ Len(last.adds) = 1
    /\ Cardinality(KeysUsed(last)) = 2

\* the pairs of steps a call took one after the other
Edges(call) == {<<call.steps[i], call.steps[i + 1]>> : i \in 1..(Len(call.steps) - 1)}

\* the moves of the state machine as claimed
ClaimedEdges ==
    {<<"LockedLookup", "Done">>, <<"LockedLookup", "ImpureLookup">>,
     <<"ImpureLookup", "Done">>, <<"ImpureLookup", "Clone">>,
     <<"Clone", "Validate">>, <<"Clone", "Fail">>,
     <<"Validate", "Persist">>, <<"Validate", "Fail">>,
     <<"Persist", "Done">>}

\* the failures of the closing merge: after a hit, or after Persist
MergeFailEdges ==
    {<<"LockedLookup", "Fail">>, <<"ImpureLookup", "Fail">>, <<"Persist", "Fail">>}

StartsInOrder(call) ==
    /\ call.steps # <<>>
    /\ call.steps[1] = (IF call.input.locked THEN "LockedLookup" ELSE "ImpureLookup")
    /\ call.steps[Len(call.steps)] \in {"Done", "Fail"}
    /\ call.steps[Len(call.steps)] = "Done" <=> call.outcome = "ok"

\* C17 as claimed: every fetch goes through locked lookup (only when
\* locked), impure lookup, clone, validate, persist, done in this order and
\* fails only from Clone or Validate; no fetch fails after a cache hit or
\* after Persist has written the cache.
C17_FailOnlyFromCloneOrValidate ==
    Called =>
        /\ StartsInOrder(last)
        /\ Edges(last) \subseteq ClaimedEdges
        /\ (last.hit # "none" \/ last.adds # <<>>) => last.outcome = "ok"

\* C17 as amended: every fetch goes through locked lookup (only when
\* locked), impure lookup, clone, validate, persist, done in this order; it
\* fails from Clone or Validate with nothing written, or after a cache hit
\* or after Persist has written the cache, with AttributeConflict, exactly
\* when the metadata differs from a value the input has.
C17_StepOrderAndFailurePoints ==
    Called =>
        /\ StartsInOrder(last)
        /\ Edges(last) \subseteq ClaimedEdges \cup MergeFailEdges
        /\ Edges(last) \cap {<<"Clone", "Fail">>, <<"Validate", "Fail">>} # {} =>
              /\ last.outcome \in {"CloneFailure", "ProbeFailure",
                                   "ChannelMismatch", "StateMismatch"}
              /\ last.adds = <<>>
        /\ Edges(last) \cap MergeFailEdges # {} <=>
              /\ last.hit # "none" \/ last.adds # <<>>
              /\ ~Agree(last.input.attrs, last.infoAttrs)
        /\ Edges(last) \cap MergeFailEdges # {} => last.outcome = "AttributeConflict"

\* a fetch has cloned, written the cache and failed then
C17_Witness ==
    /\ last.outcome = "AttributeConflict"
    /\ last.steps = <<"LockedLookup", "ImpureLookup", "Clone", "Validate", "Persist", "Fail">>
    /\ Len(last.adds) = 1
    /\ CacheHas(cache, InputLockedKey(last.input))

\* C18: a fetch of a Descriptor that is not locked and clones, the probe
\* reporting channel c, state s, lastModified t, adds the impure key
\* {name, url} as not final and then the key {name, c, s} as final, leaves
\* under both the metadata {c, s, t} and the store path of the clone, and
\* returns that store path; a fetch of a locked Descriptor that reaches
\* Persist adds the final entry under the key {name, channel, state} of the
\* request and no other.
C18_PersistWritesBothKeys ==
    [][(CallStep /\ "Persist" \in Steps(last')) =>
        LET input == last'.input
            ik == InputImpureKey(input)
            lk == LockedKey(getName(input), last'.rs.channel, last'.rs.state)
            handle == addToStore(getName(input), Tree(ReqUrl(input), last'.rs.state))
            provisional == [info |-> ProbedInfo(last'), storePath |-> handle,
                            final |-> FALSE]
            final == [info |-> ProbedInfo(last'), storePath |-> handle,
                      final |-> TRUE]
        IN  /\ lk \in DOMAIN cache'
            /\ cache'[lk] = final
            /\ handle \in store'
            /\ \A k \in DOMAIN cache' \ {ik, lk} :
                  k \in DOMAIN cache /\ cache'[k] = cache[k]
            /\ IF ~input.locked
               THEN /\ last'.adds = <<[key |-> ik, final |-> FALSE],
                                      [key |-> lk, final |-> TRUE]>>
                    /\ ik \in DOMAIN cache'
                    /\ cache'[ik] = provisional
                    /\ last'.outcome = "ok"
                    /\ last'.storePath = handle
                    /\ last'.infoAttrs = ProbedInfo(last')
               ELSE /\ lk = InputLockedKey(input)
                    /\ last'.adds = <<[key |-> lk, final |-> TRUE]>>
                    /\ last'.outcome = "ok" => last'.storePath = handle]_vars

\* a fetch of a url alone has cloned the second state of the repository
\* and left it under both keys, the cache holding the first state as well
C18_Witness ==
    /\ Succeeded
    /\ Unpinned(last.input)
    /\ Len(last.adds) = 2
    /\ last.rs.state = StateNames[2]
    /\ cache[InputImpureKey(last.input)].storePath = last.storePath
    /\ cache[last.adds[2].key].storePath = last.storePath
    /\ \E k \in FinalKeys(cache) : cache[k].info.state = StateNames[1]

\* the keys of the cache that are not impure keys
LockedKeysOf(c) == {k \in DOMAIN c : "url" \notin DOMAIN k}

\* C19: every entry of the cache under a key that is not an impure key has
\* a key {type, name, channel, state}, is final, and has metadata with the
\* channel and the state of its key; and a fetch that finds its locked key
\* returns metadata with the channel and state of the request.
C19_LockedEntrySelfConsistent ==
    /\ \A k \in LockedKeysOf(cache) :
          /\ DOMAIN k = {"type", "name", "channel", "state"}
          /\ cache[k].final
          /\ cache[k].info.channel = k.channel
          /\ cache[k].info.state = k.state
    /\ last.hit = "locked" =>
          /\ last.infoAttrs.channel = last.input.attrs.channel
          /\ last.infoAttrs.state = last.input.attrs.state
          /\ (Succeeded =>
                /\ last.result.attrs.channel = last.input.attrs.channel
                /\ last.result.attrs.state = last.input.attrs.state)

\* a fetch has found its locked key, the cache holding entries under
\* locked keys of both channels that clones of requests of several kinds
\* have written
C19_Witness ==
    /\ Succeeded
    /\ last.hit = "locked"
    /\ Cardinality(LockedKeysOf(cache)) >= 3
    /\ \E k \in LockedKeysOf(cache) : k.channel # DefaultChannel

\* C20: the store path a successful fetch of a locked Descriptor with url
\* U returns is the store path of a clone of U, never that of a tree
\* cloned from another url under the same name, channel and state.
C20_LockedHitFromOwnUrl ==
    (Succeeded /\ last.input.locked) =>
        /\ last.storePath.tree[1] = ReqUrl(last.input)
        /\ last.storePath \in store

\* the call of the cache that threw was a lookup
LookupFault(call) == call.fault \in {"lockedLookup", "impureLookup"}

\* C12: a fetch during which a lookup of the cache throws goes on as after
\* a miss, clones, and does not fail with the error of the cache; a fetch
\* during which an add of the cache throws fails with that error.
C12_LookupErrorIsMiss ==
    /\ LookupFault(last) =>
          /\ last.outcome # "CacheError"
          /\ last.clones = 1
          /\ "Clone" \in Steps(last)
    /\ last.fault \in {"add1", "add2"} => last.outcome = "CacheError"

\* the lines of a listing: what stands between its newlines
RECURSIVE LinesOf(_)
LinesOf(str) ==
    LET nl == Find(str, "\n", 0)
    IN  IF nl = NPos THEN <<str>>
        ELSE <<SubSeq(str, 1, nl)>> \o LinesOf(SubSeq(str, nl + 2, Len(str)))

MarkedLines(str) ==
    {i \in 1..Len(LinesOf(str)) : LinesOf(str)[i] # <<>> /\ LinesOf(str)[i][1] = "*"}

\* C13: getRepoChannel ends for every listing (no pass of its loop leaves
\* the scan where it was); when exactly one line of the listing begins
\* with '*' it returns what follows the first two characters of that line,
\* and when no line does it fails with ProbeFailure.
C13_ChannelDiscovery ==
    /\ chStatus = "running" =>
          \/ ChannelPass(output, pos).status # "running"
          \/ ChannelPass(output, pos).pos # pos
    /\ chStatus \notin {"idle", "running"} =>
          /\ Cardinality(MarkedLines(output)) = 1 =>
                /\ chStatus = "returned"
                /\ \E i \in MarkedLines(output) :
                      chResult = SubSeq(LinesOf(output)[i], 3, Len(LinesOf(output)[i]))
          /\ MarkedLines(output) = {} => chStatus = "ProbeFailure"

\* C14: with several fetches of the same Descriptor without channel and
\* state under way at once, and the repository recording changes, an add
\* of such a fetch never replaces the state under the impure key
\* {name, url} by an older state of the repository.
C14_ImpureOnlyFresher ==
    [][\A p \in Procs :
          (/\ procs[p].pc = "persist"
           /\ procs'[p] # procs[p]
           /\ Unpinned(ProcInput(p))
           /\ CacheHas(cache, ProcImpureKey(p)))
          => StateIndex(cache'[ProcImpureKey(p)].info.state)
                >= StateIndex(cache[ProcImpureKey(p)].info.state)]_vars

\* the temporary directories that exist are those of the processes inside
\* the scope of delTmpDir
LiveTmpDirs == {p \in Procs : procs[p].pc = "leave"}

\* C15: a temporary directory exists only while the call that created it
\* is between createTempDir and the end of the scope of its guard; once a
\* call has ended, by success, clone failure, probe failure,
\* ChannelMismatch or StateMismatch, its directory is gone, and with no
\* call under way no temporary directory remains.
C15_NoTmpDirLeak ==
    /\ tmpDirs = LiveTmpDirs
    /\ \A p \in Procs : procs[p].pc \in {"idle", "persist"} => p \notin tmpDirs
    /\ (\A p \in Procs : procs[p].pc = "idle") => tmpDirs = {}

\* one call has ended with ChannelMismatch or StateMismatch after its
\* clone, its directory gone, while the clone of the other call is there
C15_Witness ==
    \E p, q \in Procs :
        /\ procs[p].pc = "idle"
        /\ procs[p].outcome \in {"ChannelMismatch", "StateMismatch"}
        /\ procs[q].pc = "leave"
        /\ tmpDirs = {q}
        /\ store # {}

\* C16: for every URL inputFromURL accepts (scheme pijul+http, pijul+https
\* or pijul+ssh, with channel, state and other parameters present or not),
\* toURL of the Input it makes has the scheme of the URL, the same
\* authority and path, and the same query names with the same values; the
\* Input carries channel and state as attributes and its url attribute has
\* neither.
C16_UrlRoundTrip ==
    /\ urlStatus \in {"input", "done"} =>
          /\ Len(parsedUrl.scheme) > Len(Pijul) + 1
          /\ \A name \in {"channel", "state"} :
                /\ name \in DOMAIN urlInput.attrs <=> name \in DOMAIN parsedUrl.query
                /\ name \in DOMAIN parsedUrl.query =>
                      urlInput.attrs[name] = parsedUrl.query[name]
                /\ name \notin DOMAIN parseURL(urlInput.attrs.url).query
    /\ urlStatus = "done" =>
          /\ urlOut.scheme = parsedUrl.scheme
          /\ urlOut.rest = parsedUrl.rest
          /\ DOMAIN urlOut.query = DOMAIN parsedUrl.query
          /\ \A name \in DOMAIN parsedUrl.query : urlOut.query[name] = parsedUrl.query[name]

\* a URL with a channel, a state and another parameter has gone through
\* inputFromURL and toURL
C16_Witness ==
    /\ urlStatus = "done"
    /\ DOMAIN parsedUrl.query = {"channel", "ref", "state"}
    /\ parsedUrl.query["ref"] # ""
    /\ urlInput.locked
    /\ urlOut.query["ref"] = parsedUrl.query["ref"]

====
